---- MODULE Spec2Model ----
(***************************************************************************)
(* guider: a Guide object (src/src/guide.ts) populated by parse and        *)
(* rendered by format, with the Dark Souls III module                      *)
(* (src/src/modules/dark-souls-3.ts) supplying the instruction formatter   *)
(* and formatInstructions, and MD (src/src/utils/md.ts) building the text. *)
(* Strings are TLC strings; \o is string concatenation, Len the length.    *)
(***************************************************************************)
EXTENDS Integers, Sequences, FiniteSets, TLC

VARIABLES
    module,     \* which DarkSouls3Guide class the guide object is an instance of
    guide,      \* the Guide object's fields
    op,         \* the last method called on the guide
    options,    \* the partialOptions argument of the last call
    result,     \* the string returned by the last format* call
    visible,    \* filterInstructions' result in the last formatInstructions
    rows,       \* the rows handed to MD.table by the last formatInstructions
    thrown,     \* whether the last call threw
    maybeGuide, \* the maybeGuide argument of the last call: <<doc>> for parse, else <<>>
    tableColumns, \* the columns handed to MD.table by the last call, <<>> if it built no table
    tableCells  \* the padded cells of each line of the table the last call built

vars == <<module, guide, op, options, result, visible, rows, thrown,
          maybeGuide, tableColumns, tableCells>>

(***************************************************************************)
(* Bounds of the model.                                                    *)
(***************************************************************************)
MaxInstr == 3        \* longest instruction list of a multi-instruction guide
MaxComments == 3     \* format calls stop once an instruction has this many comments
MaxColumns == 2      \* most declared columns of a table handed to MD.table directly

RuleLists == {<<>>, <<1>>, <<2>>, <<1, 2>>}

\* The DarkSouls3Guide classes of the repository: the two of dark-souls-3.ts
\* (lines 1-205 and lines 207-531) and the one of part_000.
Latest == "dark-souls-3.ts"
Part000 == "part_000"
Earliest == "dark-souls-3.ts:1-205"

\* The MD class used on its own, without a guide.
MdUtils == "md.ts"

(***************************************************************************)
(* Generic helpers for arrays.                                             *)
(***************************************************************************)
Includes(arr, x) == \E k \in 1..Len(arr) : arr[k] = x

RECURSIVE Join(_, _)
Join(texts, sep) ==
    IF Len(texts) = 0 THEN ""
    ELSE IF Len(texts) = 1 THEN texts[1]
    ELSE texts[1] \o sep \o Join(Tail(texts), sep)

\* text.repeat(n), by halving
RECURSIVE Repeat(_, _)
Repeat(text, n) ==
    IF n <= 0 THEN ""
    ELSE LET half == Repeat(text, n \div 2)
         IN  half \o half \o (IF n % 2 = 1 THEN text ELSE "")

Max(a, b) == IF a >= b THEN a ELSE b

(***************************************************************************)
(* src/src/utils/md.ts                                                     *)
(***************************************************************************)
padL(text, width) == text \o Repeat(" ", Max(0, width - Len(text)))

padR(text, width) == Repeat(" ", Max(0, width - Len(text))) \o text

padC(text, width) ==
    LET d == Max(0, width - Len(text))
    IN  Repeat(" ", (d + 1) \div 2) \o text \o Repeat(" ", d \div 2)

pad(text, width, alignment) ==
    IF alignment = "right" THEN padR(text, width)
    ELSE IF alignment = "left" THEN padL(text, width)
    ELSE padC(text, width)

MD_bi(text) == IF text # "" THEN "***" \o text \o "***" ELSE ""

MD_b(text) == IF text # "" THEN "**" \o text \o "**" ELSE ""

MD_i(text) == IF text # "" THEN "_" \o text \o "_" ELSE ""

MD_s(text) == IF text # "" THEN "~~" \o text \o "~~" ELSE ""

\* An MD object is its _lines array.
MD_start == <<>>

MD_end(lines) == Join(lines, "\n\n")

MD_par(lines, text) == Append(lines, text)

MD_pars(lines, texts) == lines \o texts

MD_title(lines, text) == Append(lines, "# " \o text)

MD_section(lines, text) == Append(lines, "## " \o text)

MD_ordered(lines, texts) ==
    Append(lines, Join([k \in 1..Len(texts) |-> ToString(k) \o ". " \o texts[k]], "\n"))

MD_unordered(lines, texts) ==
    Append(lines, Join([k \in 1..Len(texts) |-> "- " \o texts[k]], "\n"))

RECURSIVE MaxOver(_, _)
MaxOver(nums, start) ==
    IF Len(nums) = 0 THEN start ELSE MaxOver(Tail(nums), Max(start, Head(nums)))

ColumnCount(columns, rws) == MaxOver([k \in 1..Len(rws) |-> Len(rws[k])], Len(columns))

\* ExtendedColumns with the added columns centered.
ExtendedColumnsCentered(columns, rws) ==
    [c \in 1..ColumnCount(columns, rws) |->
        IF c <= Len(columns) THEN columns[c] ELSE [title |-> "", alignment |-> "center"]]

ExtendedColumns(columns, rws) ==
    [c \in 1..ColumnCount(columns, rws) |->
        IF c <= Len(columns) THEN columns[c] ELSE [title |-> "", alignment |-> "left"]]

ExtendedRows(columns, rws) ==
    [r \in 1..Len(rws) |->
        [c \in 1..ColumnCount(columns, rws) |->
            IF c <= Len(rws[r]) THEN rws[r][c] ELSE ""]]

\* ColumnWidths without the minimum of 3.
ColumnWidthsNoMinimum(columns, rws) ==
    [c \in 1..Len(columns) |->
        MaxOver([r \in 1..Len(rws) |-> Len(rws[r][c])], Len(columns[c].title))]

ColumnWidths(columns, rws) ==
    [c \in 1..Len(columns) |->
        MaxOver([r \in 1..Len(rws) |-> Len(rws[r][c])], Max(Len(columns[c].title), 3))]

\* The arrays that the three lines.push calls join with " | ": the header
\* cells, the marker cells and the cells of each row, from the extended
\* columns and rows.
TableCells(columns, rws) ==
    LET w == ColumnWidths(columns, rws)
        header == [c \in 1..Len(columns) |-> padL(columns[c].title, w[c])]
        marker == [c \in 1..Len(columns) |->
                      (IF columns[c].alignment = "center" THEN ":" ELSE "-")
                      \o Repeat("-", w[c] - 2)
                      \o (IF columns[c].alignment = "left" THEN "-" ELSE ":")]
        data == [r \in 1..Len(rws) |->
                    [c \in 1..Len(rws[r]) |-> pad(rws[r][c], w[c], columns[c].alignment)]]
    IN  <<header, marker>> \o data

TableLines(columns, rws) ==
    LET lineCells == TableCells(columns, rws)
    IN  [r \in 1..Len(lineCells) |-> "| " \o Join(lineCells[r], " | ") \o " |"]

\* The cells of the table MD.table builds from its arguments, none when it
\* returns early.
CellsOfTable(columns, rws) ==
    IF Len(columns) = 0 THEN <<>>
    ELSE TableCells(ExtendedColumns(columns, rws), ExtendedRows(columns, rws))

MD_table(lines, columns, rws) ==
    IF Len(columns) = 0 THEN lines
    ELSE Append(lines, Join(TableLines(ExtendedColumns(columns, rws),
                                       ExtendedRows(columns, rws)), "\n"))

(***************************************************************************)
(* src/src/guide.ts: FormatOptions.  A Partial<FormatOptions> argument     *)
(* holds, per field, <<>> when the field is not supplied and <<v>> when it *)
(* is supplied with value v; a call without options is NoOptions.          *)
(***************************************************************************)
\* defaultFormatOptions with hideComments on.
defaultFormatOptionsHidingComments ==
    [collapseInstructionGroups |-> FALSE,
     hideComments |-> TRUE,
     hideInstructionId |-> FALSE,
     hideOptional |-> FALSE,
     hideSafety |-> FALSE,
     ignoredRules |-> <<>>]

defaultFormatOptions ==
    [collapseInstructionGroups |-> FALSE,
     hideComments |-> FALSE,
     hideInstructionId |-> FALSE,
     hideOptional |-> FALSE,
     hideSafety |-> FALSE,
     ignoredRules |-> <<>>]

NoOptions ==
    [collapseInstructionGroups |-> <<>>,
     hideComments |-> <<>>,
     hideInstructionId |-> <<>>,
     hideOptional |-> <<>>,
     hideSafety |-> <<>>,
     ignoredRules |-> <<>>]

\* { ...defaultFormatOptions, ...partialOptions }
MergeOptions(partialOptions) ==
    [collapseInstructionGroups |->
        IF partialOptions.collapseInstructionGroups = <<>>
        THEN defaultFormatOptions.collapseInstructionGroups
        ELSE partialOptions.collapseInstructionGroups[1],
     hideComments |->
        IF partialOptions.hideComments = <<>>
        THEN defaultFormatOptions.hideComments
        ELSE partialOptions.hideComments[1],
     hideInstructionId |->
        IF partialOptions.hideInstructionId = <<>>
        THEN defaultFormatOptions.hideInstructionId
        ELSE partialOptions.hideInstructionId[1],
     hideOptional |->
        IF partialOptions.hideOptional = <<>>
        THEN defaultFormatOptions.hideOptional
        ELSE partialOptions.hideOptional[1],
     hideSafety |->
        IF partialOptions.hideSafety = <<>>
        THEN defaultFormatOptions.hideSafety
        ELSE partialOptions.hideSafety[1],
     ignoredRules |->
        IF partialOptions.ignoredRules = <<>>
        THEN defaultFormatOptions.ignoredRules
        ELSE partialOptions.ignoredRules[1]]

\* A full options object as the argument of a call: every field supplied.
Supplied(full) ==
    [collapseInstructionGroups |-> <<full.collapseInstructionGroups>>,
     hideComments |-> <<full.hideComments>>,
     hideInstructionId |-> <<full.hideInstructionId>>,
     hideOptional |-> <<full.hideOptional>>,
     hideSafety |-> <<full.hideSafety>>,
     ignoredRules |-> <<full.ignoredRules>>]

(***************************************************************************)
(* src/src/guide.ts: the Guide object.                                     *)
(***************************************************************************)
\* The fields set by the constructor.
EmptyGuide ==
    [categories |-> <<>>,
     description |-> <<>>,
     resources |-> <<>>,
     gameTitle |-> "",
     instructions |-> <<>>,
     rules |-> <<>>]

\* An instruction after schema defaults: the GenericInstruction envelope, the
\* area, the type tag and the payload fields of the union (unused ones empty).
\* An optional field is <<>> when absent and <<v>> when present; allot-estus'
\* quantity is <<>> for the literal "all".
Instr(type, area) ==
    [type |-> type, area |-> area,
     comments |-> <<>>, hideOnIgnoredRules |-> <<>>, showOnIgnoredRules |-> <<>>,
     optional |-> FALSE, safety |-> FALSE,
     text |-> "", boss |-> "", items |-> <<>>, spells |-> <<>>, rewards |-> <<>>,
     vendor |-> "", where |-> "", bonfire |-> "", weapon |-> "", item |-> "",
     reward |-> "", from |-> "", to |-> "", class |-> "", burialGift |-> "",
     equip |-> <<>>, unequip |-> <<>>,
     quantity |-> <<>>, amount |-> <<>>, level |-> <<>>, infusion |-> <<>>,
     using |-> <<>>]

Item(name, quantity) == [name |-> name, quantity |-> quantity]

\* Guide.formatComments
formatComments(instruction, partialOptions) ==
    LET opts == MergeOptions(partialOptions)
    IN  IF opts.hideComments THEN ""
        ELSE Join([k \in 1..Len(instruction.comments) |->
                      "<br>- " \o instruction.comments[k]], "")

\* KeepInstruction with hideOnIgnoredRules under an else of the
\* showOnIgnoredRules test.
KeepInstructionElseIf(instruction, opts) ==
    IF opts.hideOptional /\ instruction.optional THEN FALSE
    ELSE IF opts.hideSafety /\ instruction.safety THEN FALSE
    ELSE IF Len(instruction.showOnIgnoredRules) > 0
         THEN \A k \in 1..Len(instruction.showOnIgnoredRules) :
                  Includes(opts.ignoredRules, instruction.showOnIgnoredRules[k])
    ELSE IF Len(instruction.hideOnIgnoredRules) > 0
         THEN \A k \in 1..Len(instruction.hideOnIgnoredRules) :
                  ~Includes(opts.ignoredRules, instruction.hideOnIgnoredRules[k])
    ELSE TRUE

\* KeepInstruction with every() in place of some() in the hideOnIgnoredRules test.
KeepInstructionHideEvery(instruction, opts) ==
    IF opts.hideOptional /\ instruction.optional THEN FALSE
    ELSE IF opts.hideSafety /\ instruction.safety THEN FALSE
    ELSE IF /\ Len(instruction.showOnIgnoredRules) > 0
            /\ \E k \in 1..Len(instruction.showOnIgnoredRules) :
                   ~Includes(opts.ignoredRules, instruction.showOnIgnoredRules[k])
         THEN FALSE
    ELSE IF /\ Len(instruction.hideOnIgnoredRules) > 0
            /\ \A k \in 1..Len(instruction.hideOnIgnoredRules) :
                   Includes(opts.ignoredRules, instruction.hideOnIgnoredRules[k])
         THEN FALSE
    ELSE TRUE

\* KeepInstruction with the hideSafety test reading the optional flag.
KeepInstructionSafetyReadsOptional(instruction, opts) ==
    IF opts.hideOptional /\ instruction.optional THEN FALSE
    ELSE IF opts.hideSafety /\ instruction.optional THEN FALSE
    ELSE IF /\ Len(instruction.showOnIgnoredRules) > 0
            /\ \E k \in 1..Len(instruction.showOnIgnoredRules) :
                   ~Includes(opts.ignoredRules, instruction.showOnIgnoredRules[k])
         THEN FALSE
    ELSE IF /\ Len(instruction.hideOnIgnoredRules) > 0
            /\ \E k \in 1..Len(instruction.hideOnIgnoredRules) :
                   Includes(opts.ignoredRules, instruction.hideOnIgnoredRules[k])
         THEN FALSE
    ELSE TRUE

\* The callback of Guide.filterInstructions: whether the instruction is kept.
KeepInstruction(instruction, opts) ==
    IF opts.hideOptional /\ instruction.optional THEN FALSE
    ELSE IF opts.hideSafety /\ instruction.safety THEN FALSE
    ELSE IF /\ Len(instruction.showOnIgnoredRules) > 0
            /\ \E k \in 1..Len(instruction.showOnIgnoredRules) :
                   ~Includes(opts.ignoredRules, instruction.showOnIgnoredRules[k])
         THEN FALSE
    ELSE IF /\ Len(instruction.hideOnIgnoredRules) > 0
            /\ \E k \in 1..Len(instruction.hideOnIgnoredRules) :
                   Includes(opts.ignoredRules, instruction.hideOnIgnoredRules[k])
         THEN FALSE
    ELSE TRUE

\* Guide.filterInstructions
filterInstructions(instructions, partialOptions) ==
    LET opts == MergeOptions(partialOptions)
        keep(instruction) == KeepInstruction(instruction, opts)
    IN  SelectSeq(instructions, keep)

(***************************************************************************)
(* src/src/modules/dark-souls-3.ts (the latest DarkSouls3Guide)            *)
(***************************************************************************)
\* capitalize, on the words the schema lets reach it (from/to of allot-estus).
capitalize(word) ==
    CASE word = "" -> ""
      [] word = "ashen" -> "Ashen"
      [] word = "normal" -> "Normal"

\* `${n}` of an optional number that defaults to the word "all".
AmountText(amount) == IF amount = <<>> THEN "all" ELSE ToString(amount[1])

\* IsOne with the test reading <= 1.
IsOneAtMost(amount) == amount # <<>> /\ amount[1] <= 1

\* amount === 1
IsOne(amount) == amount # <<>> /\ amount[1] = 1

\* ItemText with the quantity test reading >= 1.
ItemTextFromOne(item) ==
    IF item.quantity >= 1
    THEN MD_bi(item.name) \o " (" \o ToString(item.quantity) \o ")"
    ELSE MD_bi(item.name)

ItemText(item) ==
    IF item.quantity > 1
    THEN MD_bi(item.name) \o " (" \o ToString(item.quantity) \o ")"
    ELSE MD_bi(item.name)

mapItems(items) == Join([k \in 1..Len(items) |-> ItemText(items[k])], ", ")

NamesBI(names) == Join([k \in 1..Len(names) |-> MD_bi(names[k])], ", ")

NamesI(names) == Join([k \in 1..Len(names) |-> MD_i(names[k])], ", ")

UseItemText(item) == MD_bi(item.name) \o " (" \o ToString(item.quantity) \o ")"

BossItemText(item) == MD_i(item.name) \o " (" \o ToString(item.quantity) \o ")"

\* UpgradeWeaponText testing the level before the infusion.
UpgradeWeaponTextLevelFirst(i) ==
    LET weapon == MD_bi(i.weapon)
        infusion == IF i.infusion # <<>> /\ i.infusion[1] # ""
                    THEN MD_i(i.infusion[1]) ELSE ""
        level == IF i.level # <<>> /\ i.level[1] # 0
                 THEN "+" \o ToString(i.level[1]) ELSE ""
    IN  IF level # "" THEN "Upgrade " \o weapon \o " to " \o level
        ELSE IF infusion # "" /\ level # ""
        THEN "Infuse " \o weapon \o " with " \o infusion \o " and upgrade to " \o level
        ELSE IF infusion # "" THEN "Infuse " \o weapon \o " with " \o infusion
        ELSE "Upgrade " \o weapon

\* The upgrade-weapon case: i.infusion and i.level are tested for truthiness.
UpgradeWeaponText(i) ==
    LET weapon == MD_bi(i.weapon)
        infusion == IF i.infusion # <<>> /\ i.infusion[1] # ""
                    THEN MD_i(i.infusion[1]) ELSE ""
        level == IF i.level # <<>> /\ i.level[1] # 0
                 THEN "+" \o ToString(i.level[1]) ELSE ""
    IN  IF infusion # "" /\ level # ""
        THEN "Infuse " \o weapon \o " with " \o infusion \o " and upgrade to " \o level
        ELSE IF infusion # "" THEN "Infuse " \o weapon \o " with " \o infusion
        ELSE IF level # "" THEN "Upgrade " \o weapon \o " to " \o level
        ELSE "Upgrade " \o weapon

formatInstructionByType(i) ==
    CASE i.type = "allot-estus" ->
            LET estus == IF IsOne(i.quantity) THEN "Estus Flask" ELSE "Estus Flasks"
                from == MD_bi(capitalize(i.from) \o " " \o estus)
                to == MD_bi(capitalize(i.to) \o " " \o estus)
            IN  "Allot " \o AmountText(i.quantity) \o " " \o from \o " to " \o to
      [] i.type = "attune-spells" -> "Attune " \o NamesBI(i.spells)
      [] i.type = "burn-undead-bone-shards" ->
            LET shard == IF IsOne(i.amount) THEN "Undead Bone Shard" ELSE "Undead Bone Shards"
            IN  "Burn " \o AmountText(i.amount) \o " " \o MD_bi(shard) \o " at the bonfire"
      [] i.type = "buy-items" -> "Buy " \o mapItems(i.items) \o " from " \o i.vendor
      [] i.type = "cast-spells" -> "Cast " \o NamesBI(i.spells)
      [] i.type = "change-equipment" ->
            LET equips == NamesBI(i.equip)
                unequips == NamesBI(i.unequip)
            IN  IF equips # "" /\ unequips # ""
                THEN "Equip " \o equips \o " and unequip " \o unequips
                ELSE IF equips # "" THEN "Equip " \o equips
                ELSE IF unequips # "" THEN "Unequip " \o unequips
                ELSE ""
      [] i.type = "comment" -> i.text
      [] i.type = "create-character" ->
            "Choose " \o MD_bi(i.class) \o " class and " \o MD_bi(i.burialGift) \o " burial gift"
      [] i.type = "fight-boss" ->
            "Fight " \o MD_bi(i.boss)
            \o (IF Len(i.spells) > 0 THEN "<br>- Cast " \o NamesI(i.spells) ELSE "")
            \o (IF Len(i.items) > 0
                THEN "<br>- Use " \o Join([k \in 1..Len(i.items) |-> BossItemText(i.items[k])], ", ")
                ELSE "")
      [] i.type = "grab-items" ->
            IF i.where # "" THEN "Grab " \o mapItems(i.items) \o " " \o i.where
            ELSE "Grab " \o mapItems(i.items)
      [] i.type = "kill-lizards" ->
            LET lizards == IF IsOne(i.amount) THEN "lizard"
                           ELSE AmountText(i.amount) \o " lizards"
            IN  "Kill " \o lizards \o " " \o i.where \o " for " \o mapItems(i.rewards)
      [] i.type = "light-bonfire" -> "Light " \o MD_bi(i.bonfire) \o " bonfire"
      [] i.type = "reinforce-estus" ->
            LET estus == IF IsOne(i.amount) THEN "Estus Flask" ELSE "Estus Flasks"
            IN  "Reinforce " \o AmountText(i.amount) \o " " \o MD_bi(estus)
                \o " by " \o MD_i("Andre")
      [] i.type = "trade" ->
            "Trade a " \o MD_bi(i.item) \o " for a " \o MD_bi(i.reward)
            \o " with " \o MD_i("Pickle Pee")
      [] i.type = "two-hand" -> "Two-hand " \o MD_bi(i.weapon)
      [] i.type = "unlock-shortcut" -> "Unlock shortcut " \o i.where
      [] i.type = "upgrade-weapon" -> UpgradeWeaponText(i)
      [] i.type = "use-items" ->
            "Use " \o Join([k \in 1..Len(i.items) |-> UseItemText(i.items[k])], ", ")
      [] i.type = "warp" ->
            LET using == IF i.using # <<>> /\ i.using[1] # ""
                         THEN " using " \o MD_bi(i.using[1]) ELSE ""
            IN  IF i.bonfire # "" THEN "Warp to " \o MD_bi(i.bonfire) \o using
                ELSE "Warp to last bonfire rested at" \o using

formatDarkSouls3Instruction(i) ==
    LET formattedInstruction == formatInstructionByType(i)
    IN  IF i.safety THEN MD_i("[peachy]") \o " " \o formattedInstruction
        ELSE IF i.optional THEN MD_i("[optional]") \o " " \o formattedInstruction
        ELSE formattedInstruction

(***************************************************************************)
(* src/unnamed/part_000 (the DarkSouls3Guide whose fight-boss branch       *)
(* unshifts into the instruction's comments)                               *)
(***************************************************************************)
ItemText000(item) ==
    IF item.quantity > 1
    THEN MD_i(item.name) \o " (" \o ToString(item.quantity) \o ")"
    ELSE MD_i(item.name)

mapItems000(items) == Join([k \in 1..Len(items) |-> ItemText000(items[k])], ", ")

\* The comments array of i after formatInstruction(i) has run.
CommentsAfterFormat000(i) ==
    IF i.type = "fight-boss"
    THEN LET afterSpells == IF Len(i.spells) > 0
                            THEN <<"Cast " \o NamesI(i.spells)>> \o i.comments
                            ELSE i.comments
         IN  IF Len(i.items) > 0
             THEN <<"Use " \o Join([k \in 1..Len(i.items) |-> BossItemText(i.items[k])], ", ")>>
                  \o afterSpells
             ELSE afterSpells
    ELSE i.comments

formatInstructionByType000(i) ==
    CASE i.type = "allot-estus" ->
            LET estus == IF IsOne(i.quantity) THEN "Estus Flask" ELSE "Estus Flasks"
                from == MD_i(capitalize(i.from) \o " " \o estus)
                to == MD_i(capitalize(i.to) \o " " \o estus)
            IN  "Allot " \o AmountText(i.quantity) \o " " \o from \o " to " \o to
      [] i.type = "burn-undead-bone-shards" ->
            LET shard == IF IsOne(i.amount) THEN "Undead Bone Shard" ELSE "Undead Bone Shards"
            IN  "Burn " \o AmountText(i.amount) \o " " \o MD_i(shard) \o " at the bonfire"
      [] i.type = "buy-items" -> "Buy " \o mapItems000(i.items) \o " from " \o i.vendor
      [] i.type = "cast-spells" -> "Cast " \o NamesI(i.spells)
      [] i.type = "comment" -> i.text
      [] i.type = "create-character" ->
            "Choose " \o MD_i(i.class) \o " class and " \o MD_i(i.burialGift) \o " burial gift"
      [] i.type = "equip" -> "Equip " \o NamesI(i.equip)
      [] i.type = "fight-boss" -> "Fight " \o MD_i(i.boss)
      [] i.type = "grab-items" ->
            IF i.where # "" THEN "Grab " \o mapItems000(i.items) \o " " \o i.where
            ELSE "Grab " \o mapItems000(i.items)
      [] i.type = "kill-lizards" ->
            LET lizards == IF IsOne(i.amount) THEN "lizard"
                           ELSE AmountText(i.amount) \o " lizards"
            IN  "Kill " \o lizards \o " " \o i.where \o " for " \o mapItems000(i.rewards)
      [] i.type = "light-bonfire" -> "Light " \o MD_i(i.bonfire) \o " bonfire"
      [] i.type = "reinforce-estus" ->
            LET estus == IF IsOne(i.amount) THEN "Estus Flask" ELSE "Estus Flasks"
            IN  "Reinforce " \o AmountText(i.amount) \o " " \o MD_i(estus)
                \o " by " \o MD_i("Andre")
      [] i.type = "trade" ->
            "Trade a " \o MD_i(i.item) \o " for a " \o MD_i(i.reward)
            \o " with " \o MD_i("Pickle Pee")
      [] i.type = "two-hand" -> "Two-hand " \o MD_i(i.weapon)
      [] i.type = "unlock-shortcut" -> "Unlock shortcut " \o i.where
      [] i.type = "unequip" -> "Unequip " \o NamesI(i.unequip)
      [] i.type = "upgrade-weapon" ->
            LET infusion == IF i.infusion # <<>> /\ i.infusion[1] # ""
                            THEN MD_i(i.infusion[1]) ELSE ""
                level == IF i.level # <<>> /\ i.level[1] # 0
                         THEN "+" \o ToString(i.level[1]) ELSE ""
            IN  IF infusion # "" /\ level # ""
                THEN "Infuse " \o i.weapon \o " with " \o infusion \o " and upgrade to " \o level
                ELSE IF infusion # "" THEN "Infuse " \o i.weapon \o " with " \o infusion
                ELSE IF level # "" THEN "Upgrade " \o i.weapon \o " to " \o level
                ELSE "Upgrade " \o i.weapon
      [] i.type = "use-items" ->
            "Use " \o Join([k \in 1..Len(i.items) |-> BossItemText(i.items[k])], ", ")
      [] i.type = "warp" ->
            LET using == IF i.using # <<>> /\ i.using[1] # ""
                         THEN " using " \o MD_i(i.using[1]) ELSE ""
            IN  IF i.bonfire # "" THEN "Warp to " \o MD_i(i.bonfire) \o using
                ELSE "Warp to last bonfire rested at" \o using

formatInstruction000(i) ==
    LET formattedInstruction == MD_b(formatInstructionByType000(i))
    IN  IF i.optional THEN MD_i("[optional] ") \o formattedInstruction
        ELSE formattedInstruction

(***************************************************************************)
(* src/src/modules/dark-souls-3.ts, lines 1-205 (the earliest              *)
(* DarkSouls3Guide: no placeholder, comments appended by the method, the   *)
(* area of a repeated row blanked instead of the rows merged)              *)
(***************************************************************************)
formatInstructionEarliest(i) ==
    CASE i.type = "allot-estus" ->
            LET from == MD_i(capitalize(i.from) \o " Estus Flask")
                to == MD_i(capitalize(i.to) \o " Estus Flask")
            IN  "Allot " \o AmountText(i.quantity) \o " " \o from \o " to " \o to
      [] i.type = "buy-items" -> "Buy " \o mapItems000(i.items) \o " from " \o i.vendor
      [] i.type = "comment" -> i.text
      [] i.type = "create-character" ->
            "Choose " \o MD_i(i.class) \o " class and " \o MD_i(i.burialGift) \o " burial gift"
      [] i.type = "equip" -> "Equip " \o NamesI(i.equip)
      [] i.type = "fight-boss" -> "Fight " \o MD_i(i.boss)
      [] i.type = "grab-items" ->
            IF i.where # "" THEN "Grab " \o mapItems000(i.items) \o " " \o i.where
            ELSE "Grab " \o mapItems000(i.items)
      [] i.type = "kill-lizard" ->
            "Kill lizard " \o i.where \o " for " \o mapItems000(i.rewards)
      [] i.type = "light-bonfire" -> "Light " \o MD_i(i.bonfire) \o " bonfire"
      [] i.type = "two-hand" -> "Two-hand " \o MD_i(i.weapon)
      [] i.type = "unequip" -> "Unequip " \o NamesI(i.unequip)
      [] i.type = "warp" ->
            IF i.bonfire # "" THEN "Warp to " \o MD_i(i.bonfire)
            ELSE "Warp to last bonfire rested at"

\* The loop appending `<br>${comment}` for every non-empty comment.
CommentsEarliest(i, opts) ==
    IF opts.hideComments THEN ""
    ELSE Join([k \in 1..Len(i.comments) |->
                  IF i.comments[k] # "" THEN "<br>" \o i.comments[k] ELSE ""], "")

\* instructions.map((instruction, index) => ...): one row per filtered
\* instruction, k the 1-based position of index k - 1.
RowsEarliest(instructions, opts) ==
    [k \in 1..Len(instructions) |->
        LET instruction == instructions[k]
            formattedInstruction ==
                formatInstructionEarliest(instruction) \o CommentsEarliest(instruction, opts)
            area == IF \/ k = 1
                       \/ ~opts.collapseInstructionGroups
                       \/ instructions[k - 1].area # instruction.area
                    THEN instruction.area ELSE ""
        IN  IF opts.hideInstructionId THEN <<area, formattedInstruction>>
            ELSE <<ToString(k - 1), area, formattedInstruction>>]

(***************************************************************************)
(* DarkSouls3Guide.formatInstructions, in each class.                      *)
(***************************************************************************)
\* The instruction as formatInstructions leaves it in this.instructions.
InstructionAfterFormat(mod, i) ==
    IF mod = Part000 THEN [i EXCEPT !.comments = CommentsAfterFormat000(i)] ELSE i

\* formatted instruction + formatComments: the action cell of one row.  In
\* part_000 formatInstruction has already unshifted into the comments when
\* formatComments reads them.
ActionCell(mod, i, opts) ==
    IF mod = Part000
    THEN formatInstruction000(i)
         \o formatComments(InstructionAfterFormat(mod, i), Supplied(opts))
    ELSE formatDarkSouls3Instruction(i) \o formatComments(i, Supplied(opts))

AreaCell(mod, i) == IF mod = Part000 THEN MD_b(i.area) ELSE i.area

\* RowId with the one-based position.
RowIdOneBased(k) == ToString(k)

\* `${i}` for the zero-based loop index i; k is the 1-based position.
RowId(k) == ToString(k - 1)

\* The for loop pushing one [id, area, action] row per filtered instruction.
BuildRows(mod, instructions, opts) ==
    [k \in 1..Len(instructions) |->
        <<RowId(k), AreaCell(mod, instructions[k]), ActionCell(mod, instructions[k], opts)>>]

\* rows.splice(i, 1) with the 1-based position k
Splice(rws, k) == SubSeq(rws, 1, k - 1) \o SubSeq(rws, k + 1, Len(rws))

\* The collapse loop advancing i after a merge as well.
RECURSIVE CollapseLoopAdvancing(_, _)
CollapseLoopAdvancing(rws, k) ==
    IF k <= Len(rws)
    THEN LET prevRow == rws[k - 1]
             row == rws[k]
         IN  IF prevRow[2] = row[2]
             THEN CollapseLoopAdvancing(
                      Splice([rws EXCEPT ![k - 1][3] = prevRow[3] \o "<br><br>" \o row[3]], k),
                      k + 1)
             ELSE CollapseLoopAdvancing(rws, k + 1)
    ELSE rws

\* The collapse loop prepending the merged row's cell.
RECURSIVE CollapseLoopPrepending(_, _)
CollapseLoopPrepending(rws, k) ==
    IF k <= Len(rws)
    THEN LET prevRow == rws[k - 1]
             row == rws[k]
         IN  IF prevRow[2] = row[2]
             THEN CollapseLoopPrepending(
                      Splice([rws EXCEPT ![k - 1][3] = row[3] \o "<br><br>" \o prevRow[3]], k),
                      k)
             ELSE CollapseLoopPrepending(rws, k + 1)
    ELSE rws

\* The collapse loop merging into the later row: the earlier row is the one
\* spliced out.
RECURSIVE CollapseLoopKeepingLater(_, _)
CollapseLoopKeepingLater(rws, k) ==
    IF k <= Len(rws)
    THEN LET prevRow == rws[k - 1]
             row == rws[k]
         IN  IF prevRow[2] = row[2]
             THEN CollapseLoopKeepingLater(
                      Splice([rws EXCEPT ![k][3] = prevRow[3] \o "<br><br>" \o row[3]], k - 1),
                      k)
             ELSE CollapseLoopKeepingLater(rws, k + 1)
    ELSE rws

\* The while loop of the collapse, from `let i = 1`; k = i + 1 is the 1-based
\* position of rows[i], so rows[i - 1] is rws[k - 1].
RECURSIVE CollapseLoop(_, _)
CollapseLoop(rws, k) ==
    IF k <= Len(rws)
    THEN LET prevRow == rws[k - 1]
             row == rws[k]
         IN  IF prevRow[2] = row[2]
             THEN CollapseLoop(
                      Splice([rws EXCEPT ![k - 1][3] = prevRow[3] \o "<br><br>" \o row[3]], k),
                      k)
             ELSE CollapseLoop(rws, k + 1)
    ELSE rws

\* How many times the body of the while loop runs, from position k on.
RECURSIVE CollapseIterations(_, _)
CollapseIterations(rws, k) ==
    IF k <= Len(rws)
    THEN IF rws[k - 1][2] = rws[k][2]
         THEN 1 + CollapseIterations(
                      Splice([rws EXCEPT ![k - 1][3] = rws[k - 1][3] \o "<br><br>" \o rws[k][3]], k),
                      k)
         ELSE 1 + CollapseIterations(rws, k + 1)
    ELSE 0

CollapseRows(rws, opts) ==
    IF opts.collapseInstructionGroups THEN CollapseLoop(rws, 2) ELSE rws

\* HideIds splicing the last cell out of every row.
HideIdsDroppingLast(rws, opts) ==
    IF opts.hideInstructionId
    THEN [k \in 1..Len(rws) |-> SubSeq(rws[k], 1, Len(rws[k]) - 1)] ELSE rws

\* rows[i].splice(0, 1) on every row
HideIds(rws, opts) ==
    IF opts.hideInstructionId THEN [k \in 1..Len(rws) |-> Tail(rws[k])] ELSE rws

Columns(opts) ==
    IF opts.hideInstructionId
    THEN <<[title |-> "Area", alignment |-> "left"],
           [title |-> "Action", alignment |-> "left"]>>
    ELSE <<[title |-> "Id", alignment |-> "right"],
           [title |-> "Area", alignment |-> "left"],
           [title |-> "Action", alignment |-> "left"]>>

\* The rows handed to MD.table.
InstructionRows(mod, instructions, partialOptions) ==
    LET opts == MergeOptions(partialOptions)
        filtered == filterInstructions(instructions, Supplied(opts))
    IN  IF mod = Earliest THEN RowsEarliest(filtered, opts)
        ELSE HideIds(CollapseRows(BuildRows(mod, filtered, opts), opts), opts)

formatInstructions(mod, instructions, partialOptions) ==
    LET opts == MergeOptions(partialOptions)
        filtered == filterInstructions(instructions, Supplied(opts))
    IN  IF Len(filtered) = 0 /\ mod # Earliest THEN MD_i("There are no instructions")
        ELSE MD_end(MD_table(MD_section(MD_start, "Instructions"),
                             Columns(opts),
                             InstructionRows(mod, instructions, partialOptions)))

\* this.instructions after formatInstructions: the filtered instructions are
\* the objects of this.instructions, so what the formatter does to them stays.
InstructionsAfterFormat(mod, instructions, partialOptions) ==
    LET opts == MergeOptions(partialOptions)
    IN  [k \in 1..Len(instructions) |->
            IF KeepInstruction(instructions[k], opts)
            THEN InstructionAfterFormat(mod, instructions[k])
            ELSE instructions[k]]

(***************************************************************************)
(* src/src/guide.ts: the format methods.                                   *)
(***************************************************************************)
formatHeader(g) ==
    MD_end(MD_pars(MD_title(MD_start,
                            IF Len(g.categories) = 0 THEN g.gameTitle
                            ELSE g.gameTitle \o " - " \o Join(g.categories, ", ")),
                   g.description))

\* Object.entries(this.rules) sorted by numeric id: the ids in ascending order.
RECURSIVE SortedIds(_)
SortedIds(ids) ==
    IF ids = {} THEN <<>>
    ELSE LET least == CHOOSE x \in ids : \A y \in ids : x <= y
         IN  <<least>> \o SortedIds(ids \ {least})

\* formatRules dropping the ignored rules from the list.
formatRulesRemovingIgnored(g, partialOptions) ==
    LET opts == MergeOptions(partialOptions)
        notIgnored(id) == ~Includes(opts.ignoredRules, id)
        ids == SelectSeq(SortedIds(DOMAIN g.rules), notIgnored)
    IN  IF Len(ids) = 0 THEN ""
        ELSE MD_end(MD_ordered(
                 MD_par(MD_section(MD_start, "Rules"),
                        "The run includes the following restrictions:"),
                 [k \in 1..Len(ids) |-> g.rules[ids[k]]]))

formatRules(g, partialOptions) ==
    LET opts == MergeOptions(partialOptions)
        ids == SortedIds(DOMAIN g.rules)
    IN  IF Len(ids) = 0 THEN ""
        ELSE MD_end(MD_ordered(
                 MD_par(MD_section(MD_start, "Rules"),
                        "The run includes the following restrictions:"),
                 [k \in 1..Len(ids) |->
                     IF Includes(opts.ignoredRules, ids[k])
                     THEN MD_s(g.rules[ids[k]]) ELSE g.rules[ids[k]]]))

formatResources(g) ==
    IF Len(g.resources) = 0 THEN ""
    ELSE MD_end(MD_unordered(
             MD_par(MD_section(MD_start, "Resources"), "Other useful resources:"),
             g.resources))

format(mod, g, partialOptions) ==
    formatHeader(g) \o "\n\n" \o formatResources(g) \o "\n\n"
    \o formatRules(g, partialOptions) \o "\n\n"
    \o formatInstructions(mod, g.instructions, partialOptions)

(***************************************************************************)
(* The inputs: documents handed to parse and options handed to format.     *)
(***************************************************************************)
\* Instructions of the multi-instruction guides: two areas, one instruction
\* that options can hide, one fight-boss with spells, items and a comment.
PlainA == [Instr("comment", "A") EXCEPT !.text = "a", !.comments = <<"c">>]
HideableB ==
    [Instr("comment", "B") EXCEPT !.text = "h", !.optional = TRUE,
                                  !.hideOnIgnoredRules = <<1>>]
BossA ==
    [Instr("fight-boss", "A") EXCEPT !.boss = "V", !.spells = <<"S">>,
                                     !.items = <<Item("E", 1)>>, !.comments = <<"c">>]

SeqPool == {PlainA, HideableB, BossA}

RECURSIVE SeqsUpTo(_, _)
SeqsUpTo(S, n) ==
    IF n = 0 THEN {<<>>}
    ELSE LET shorter == SeqsUpTo(S, n - 1)
         IN  shorter \cup {Append(q, x) : q \in {r \in shorter : Len(r) = n - 1}, x \in S}

\* Every envelope: the flags and the two rule lists.
EnvelopePool ==
    {[Instr("comment", "A") EXCEPT !.text = "e", !.optional = o, !.safety = f,
                                   !.showOnIgnoredRules = sh, !.hideOnIgnoredRules = hd] :
        o \in BOOLEAN, f \in BOOLEAN, sh \in RuleLists, hd \in RuleLists}

\* Item lists with quantities on both sides of the quantity > 1 test.
Quantities == {1, 2, 3}
ItemLists ==
    {<<Item("E", q)>> : q \in Quantities}
    \cup {<<Item("E", q1), Item("F", q2)>> : q1 \in Quantities, q2 \in Quantities}

ItemKindPool ==
    {[Instr("buy-items", "A") EXCEPT !.items = l, !.vendor = "M"] : l \in ItemLists}
    \cup {[Instr("grab-items", "A") EXCEPT !.items = l, !.where = "w"] : l \in ItemLists}
    \cup {[Instr("kill-lizards", "A") EXCEPT !.rewards = l, !.where = "w", !.amount = <<1>>] :
             l \in ItemLists}
    \cup {[Instr("use-items", "A") EXCEPT !.items = l] : l \in ItemLists}
    \cup {[Instr("fight-boss", "A") EXCEPT !.boss = "V", !.items = l] : l \in ItemLists}

\* Amounts on both sides of the === 1 test, and the absent amount.
AmountValues == {<<>>, <<0>>, <<1>>, <<2>>}

AmountKindPool ==
    {[Instr("allot-estus", "A") EXCEPT !.from = "ashen", !.to = "normal", !.quantity = n] :
        n \in AmountValues}
    \cup {[Instr("burn-undead-bone-shards", "A") EXCEPT !.amount = n] : n \in AmountValues}
    \cup {[Instr("reinforce-estus", "A") EXCEPT !.amount = n] : n \in AmountValues}
    \cup {[Instr("kill-lizards", "A") EXCEPT !.amount = n, !.where = "w",
                                             !.rewards = <<Item("E", 1)>>] :
             n \in AmountValues}

\* upgrade-weapon with each facet absent, present, and present with a value the
\* schema rejects.
UpgradePool ==
    {[Instr("upgrade-weapon", "A") EXCEPT !.weapon = "W", !.infusion = f, !.level = l] :
        f \in {<<>>, <<"Fire">>, <<"">>}, l \in {<<>>, <<0>>, <<1>>, <<2>>}}

Rules12 == <<"No upgrades", "No estus">>

Doc(instructions) ==
    [categories |-> <<"Any%">>, description |-> <<"d">>, resources |-> <<"r">>,
     gameTitle |-> "DS3", instructions |-> instructions, rules |-> Rules12]

\* Variations of the header fields, and a document the schema rejects
\* (description: z.array(z.string()).min(1)).
HeaderDocs ==
    {[Doc(<<PlainA>>) EXCEPT !.categories = <<>>],
     [Doc(<<PlainA>>) EXCEPT !.categories = <<"Any%", "Glitchless">>,
                             !.description = <<"d", "e">>],
     [Doc(<<PlainA>>) EXCEPT !.resources = <<>>],
     [Doc(<<PlainA>>) EXCEPT !.rules = <<>>],
     [Doc(<<PlainA>>) EXCEPT !.rules = (2 :> "No estus")],
     [Doc(<<PlainA>>) EXCEPT !.rules = <<"", "No estus">>],
     [Doc(<<PlainA>>) EXCEPT !.resources = <<>>, !.rules = <<>>]}

\* A document whose header fields are all valid and whose one instruction the
\* schema rejects (comment text: z.string().min(1)).
BadInstructionDoc ==
    [categories |-> <<"All Bosses">>, description |-> <<"x">>, resources |-> <<"s">>,
     gameTitle |-> "DS1", instructions |-> <<Instr("comment", "C")>>,
     rules |-> <<"No summons">>]

InvalidDocs == {[Doc(<<PlainA>>) EXCEPT !.description = <<>>], BadInstructionDoc}

Documents ==
    {Doc(l) : l \in SeqsUpTo(SeqPool, MaxInstr)}
    \cup {Doc(<<i>>) : i \in EnvelopePool \cup ItemKindPool \cup AmountKindPool \cup UpgradePool}
    \cup HeaderDocs \cup InvalidDocs

\* The documents handed to parse on a guide that is already filled.
ReparseDocs == {BadInstructionDoc, Doc(<<PlainA>>)}

\* Every full options object.
FullOptions ==
    [collapseInstructionGroups : BOOLEAN, hideComments : BOOLEAN,
     hideInstructionId : BOOLEAN, hideOptional : BOOLEAN, hideSafety : BOOLEAN,
     ignoredRules : RuleLists]

\* The options arguments with at most one field supplied.
SingleFieldArgs ==
    {NoOptions}
    \cup {[NoOptions EXCEPT !.collapseInstructionGroups = <<b>>] : b \in BOOLEAN}
    \cup {[NoOptions EXCEPT !.hideComments = <<b>>] : b \in BOOLEAN}
    \cup {[NoOptions EXCEPT !.hideInstructionId = <<b>>] : b \in BOOLEAN}
    \cup {[NoOptions EXCEPT !.hideOptional = <<b>>] : b \in BOOLEAN}
    \cup {[NoOptions EXCEPT !.hideSafety = <<b>>] : b \in BOOLEAN}
    \cup {[NoOptions EXCEPT !.ignoredRules = <<l>>] : l \in RuleLists}

\* The options arguments of a call: none, one field supplied, all supplied.
OptionArgs == SingleFieldArgs \cup {Supplied(full) : full \in FullOptions}

AllSet ==
    [collapseInstructionGroups |-> TRUE, hideComments |-> TRUE,
     hideInstructionId |-> TRUE, hideOptional |-> TRUE, hideSafety |-> TRUE,
     ignoredRules |-> <<1, 2>>]

\* formatRules reads ignoredRules alone.
RuleOptionArgs ==
    {NoOptions} \cup {[NoOptions EXCEPT !.ignoredRules = <<l>>] : l \in RuleLists}

(***************************************************************************)
(* The schema of Guide.parse, on the fields the documents vary.            *)
(***************************************************************************)
ValidItems(items) ==
    \A k \in 1..Len(items) : items[k].name # ""

ValidInstruction(i) ==
    CASE i.type = "comment" -> i.text # ""
      [] i.type = "fight-boss" -> i.boss # "" /\ ValidItems(i.items)
      [] i.type = "buy-items" -> i.vendor # "" /\ ValidItems(i.items)
      [] i.type = "grab-items" -> Len(i.items) >= 1 /\ ValidItems(i.items) /\ i.where # ""
      [] i.type = "kill-lizards" ->
            /\ Len(i.rewards) >= 1 /\ ValidItems(i.rewards)
            /\ (i.amount = <<>> \/ i.amount[1] >= 1)
      [] i.type = "use-items" -> Len(i.items) >= 1 /\ ValidItems(i.items)
      [] i.type = "allot-estus" ->
            /\ i.from \in {"ashen", "normal"} /\ i.to \in {"ashen", "normal"}
            /\ (i.quantity = <<>> \/ i.quantity[1] >= 1)
      [] i.type = "burn-undead-bone-shards" -> TRUE
      [] i.type = "reinforce-estus" -> TRUE
      [] i.type = "upgrade-weapon" ->
            /\ i.weapon # ""
            /\ (i.level = <<>> \/ i.level[1] > 0)
            /\ (i.infusion = <<>> \/ i.infusion[1] # "")
      [] OTHER -> FALSE

\* The InstructionSchema of lines 16-95.
ValidInstructionEarliest(i) ==
    CASE i.type = "comment" -> i.text # ""
      [] i.type = "fight-boss" -> TRUE
      [] i.type = "buy-items" -> i.vendor # ""
      [] i.type = "grab-items" -> Len(i.items) >= 1
      [] i.type = "allot-estus" ->
            /\ i.from \in {"ashen", "normal"} /\ i.to \in {"ashen", "normal"}
            /\ (i.quantity = <<>> \/ i.quantity[1] >= 1)
      [] OTHER -> FALSE

ValidDocument(doc) ==
    /\ Len(doc.description) >= 1
    /\ \A k \in 1..Len(doc.instructions) :
           IF module = Earliest THEN ValidInstructionEarliest(doc.instructions[k])
           ELSE ValidInstruction(doc.instructions[k])

(***************************************************************************)
(* The state machine.                                                      *)
(***************************************************************************)
\* new DarkSouls3Guide()
Constructed(mod) ==
    /\ module = mod
    /\ guide = EmptyGuide
    /\ op = "new"
    /\ options = NoOptions
    /\ result = ""
    /\ visible = <<>>
    /\ rows = <<>>
    /\ thrown = FALSE
    /\ maybeGuide = <<>>
    /\ tableColumns = <<>>
    /\ tableCells = <<>>

Init == Constructed(Latest)

InitPart000 == Constructed(Part000)

InitEarliest == Constructed(Earliest)

\* The defaults the schema fills in where a document leaves the field out:
\* kill-lizards' amount (z.number().min(1).default(1)).  The other defaulted
\* fields are spelled out in the documents.
SchemaInstruction(i) ==
    IF i.type = "kill-lizards" /\ i.amount = <<>> THEN [i EXCEPT !.amount = <<1>>] ELSE i

\* The z.object of lines 64-67 keeps type and boss of a fight-boss: items and
\* spells are keys it does not know and strips.
SchemaInstructionEarliest(i) ==
    IF i.type = "fight-boss" THEN [i EXCEPT !.items = <<>>, !.spells = <<>>] ELSE i

\* guideModel: what schema.parse returns for a document it accepts.
SchemaOutput(doc) ==
    [doc EXCEPT !.instructions =
        [k \in 1..Len(doc.instructions) |->
            IF module = Earliest THEN SchemaInstructionEarliest(doc.instructions[k])
            ELSE SchemaInstruction(doc.instructions[k])]]

\* ParsedGuide assigning the header fields before the schema has run.
ParsedGuideAssigningFirst(g, doc) ==
    IF ValidDocument(doc) THEN SchemaOutput(doc)
    ELSE [g EXCEPT !.categories = doc.categories, !.description = doc.description,
                   !.resources = doc.resources, !.gameTitle = doc.gameTitle]

\* The guide's fields after parse(doc) on a guide with fields g: schema.parse
\* throws before the first assignment, or all six fields are assigned.
ParsedGuide(g, doc) ==
    IF ValidDocument(doc) THEN SchemaOutput(doc) ELSE g

Parse(doc) ==
    /\ guide' = ParsedGuide(guide, doc)
    /\ thrown' = ~ValidDocument(doc)
    /\ op' = "parse"
    /\ options' = NoOptions
    /\ result' = ""
    /\ visible' = <<>>
    /\ rows' = <<>>
    /\ maybeGuide' = <<doc>>
    /\ tableColumns' = <<>>
    /\ tableCells' = <<>>
    /\ UNCHANGED module

\* A format call is taken while every instruction has fewer than MaxComments
\* comments (part_000 grows them).
CanFormat ==
    \A k \in 1..Len(guide.instructions) : Len(guide.instructions[k].comments) < MaxComments

\* The columns and cells of the table formatInstructions builds, none when it
\* returns the placeholder.
TableColumns(mod, instructions, partialOptions) ==
    IF Len(filterInstructions(instructions, partialOptions)) = 0 /\ mod # Earliest THEN <<>>
    ELSE Columns(MergeOptions(partialOptions))

TableCellsBuilt(mod, instructions, partialOptions) ==
    CellsOfTable(TableColumns(mod, instructions, partialOptions),
                 InstructionRows(mod, instructions, partialOptions))

Format(partialOptions) ==
    /\ CanFormat
    /\ op' = "format"
    /\ options' = partialOptions
    /\ result' = format(module, guide, partialOptions)
    /\ visible' = filterInstructions(guide.instructions, partialOptions)
    /\ rows' = InstructionRows(module, guide.instructions, partialOptions)
    /\ guide' = [guide EXCEPT !.instructions =
                    InstructionsAfterFormat(module, guide.instructions, partialOptions)]
    /\ thrown' = FALSE
    /\ maybeGuide' = <<>>
    /\ tableColumns' = TableColumns(module, guide.instructions, partialOptions)
    /\ tableCells' = TableCellsBuilt(module, guide.instructions, partialOptions)
    /\ UNCHANGED module

FormatInstructions(partialOptions) ==
    /\ CanFormat
    /\ op' = "formatInstructions"
    /\ options' = partialOptions
    /\ result' = formatInstructions(module, guide.instructions, partialOptions)
    /\ visible' = filterInstructions(guide.instructions, partialOptions)
    /\ rows' = InstructionRows(module, guide.instructions, partialOptions)
    /\ guide' = [guide EXCEPT !.instructions =
                    InstructionsAfterFormat(module, guide.instructions, partialOptions)]
    /\ thrown' = FALSE
    /\ maybeGuide' = <<>>
    /\ tableColumns' = TableColumns(module, guide.instructions, partialOptions)
    /\ tableCells' = TableCellsBuilt(module, guide.instructions, partialOptions)
    /\ UNCHANGED module

FormatRules(partialOptions) ==
    /\ op' = "formatRules"
    /\ options' = partialOptions
    /\ result' = formatRules(guide, partialOptions)
    /\ visible' = <<>>
    /\ rows' = <<>>
    /\ thrown' = FALSE
    /\ maybeGuide' = <<>>
    /\ tableColumns' = <<>>
    /\ tableCells' = <<>>
    /\ UNCHANGED <<module, guide>>

FormatHeader ==
    /\ op' = "formatHeader"
    /\ options' = NoOptions
    /\ result' = formatHeader(guide)
    /\ visible' = <<>>
    /\ rows' = <<>>
    /\ thrown' = FALSE
    /\ maybeGuide' = <<>>
    /\ tableColumns' = <<>>
    /\ tableCells' = <<>>
    /\ UNCHANGED <<module, guide>>

FormatResources ==
    /\ op' = "formatResources"
    /\ options' = NoOptions
    /\ result' = formatResources(guide)
    /\ visible' = <<>>
    /\ rows' = <<>>
    /\ thrown' = FALSE
    /\ maybeGuide' = <<>>
    /\ tableColumns' = <<>>
    /\ tableCells' = <<>>
    /\ UNCHANGED <<module, guide>>

\* parse fills a new guide from any document; on a guide that is already
\* filled it is called with one document the schema rejects or one it accepts.
ParseArgs == IF guide = EmptyGuide THEN Documents ELSE ReparseDocs

\* The first call on a guide takes any options argument; a later call repeats
\* the previous call's argument, that argument with hideInstructionId the
\* other way round, or one of two fixed ones.
FirstCall == op \in {"new", "parse"}

\* The options of the previous call, all supplied, hideInstructionId negated.
IdToggled ==
    Supplied([MergeOptions(options) EXCEPT
                 !.hideInstructionId = ~MergeOptions(options).hideInstructionId])

FormatArgs ==
    IF FirstCall THEN OptionArgs ELSE {options, IdToggled, NoOptions, Supplied(AllSet)}

FormatInstructionsArgs ==
    IF FirstCall THEN SingleFieldArgs ELSE {options, IdToggled, Supplied(AllSet)}

Next ==
    \/ \E doc \in ParseArgs : Parse(doc)
    \/ \E partialOptions \in FormatArgs : Format(partialOptions)
    \/ \E partialOptions \in FormatInstructionsArgs : FormatInstructions(partialOptions)
    \/ \E partialOptions \in RuleOptionArgs : FormatRules(partialOptions)
    \/ FormatHeader
    \/ FormatResources

Spec == Init /\ [][Next]_vars

SpecPart000 == InitPart000 /\ [][Next]_vars

SpecEarliest == InitEarliest /\ [][Next]_vars

(***************************************************************************)
(* MD.table on its own: MD.start().table(columns, rows).end() on columns   *)
(* and rows of any shape.                                                  *)
(***************************************************************************)
TableColumnPool ==
    {[title |-> "", alignment |-> "left"],
     [title |-> "Name", alignment |-> "left"],
     [title |-> "Name", alignment |-> "right"],
     [title |-> "Id", alignment |-> "center"]}

\* A row of n cells: "ab" everywhere but at position w, which holds the wider
\* "wide5" (w = 0: no wide cell).
TableRow(n, w) == [c \in 1..n |-> IF c = w THEN "wide5" ELSE "ab"]

ColumnLists == SeqsUpTo(TableColumnPool, MaxColumns)

\* Rows of no cell up to one cell more than the most columns.
TableRowPool == {TableRow(n, w) : n \in 0..(MaxColumns + 1), w \in 0..(MaxColumns + 1)}

\* No row, one row, two rows.
RowLists == {<<>>} \cup {<<r>> : r \in TableRowPool}
            \cup {<<r1, r2>> : r1 \in TableRowPool, r2 \in TableRowPool}

InitTable == Constructed(MdUtils)

\* MD.start().table(cols, rws).end(), once on a new MD object.
Table(cols, rws) ==
    /\ op = "new"
    /\ op' = "table"
    /\ tableColumns' = cols
    /\ rows' = rws
    /\ tableCells' = CellsOfTable(cols, rws)
    /\ result' = MD_end(MD_table(MD_start, cols, rws))
    /\ thrown' = FALSE
    /\ UNCHANGED <<module, guide, options, visible, maybeGuide>>

NextTable == \E cols \in ColumnLists, rws \in RowLists : Table(cols, rws)

SpecTable == InitTable /\ [][NextTable]_vars

(***************************************************************************)
(* Vocabulary of the properties.                                           *)
(***************************************************************************)
Opts == MergeOptions(options)

\* The last call ran filterInstructions and built the table rows.
InstrCall == op \in {"format", "formatInstructions"}

FormatOps == {"format", "formatInstructions", "formatRules", "formatHeader", "formatResources"}

ListSet(list) == {list[k] : k \in 1..Len(list)}

AllIgnored(list) == ListSet(list) \subseteq ListSet(Opts.ignoredRules)

SomeIgnored(list) == ListSet(list) \cap ListSet(Opts.ignoredRules) # {}

Shown(instruction) == \E k \in 1..Len(visible) : visible[k] = instruction

FlagExcluded(instruction) ==
    \/ Opts.hideOptional /\ instruction.optional
    \/ Opts.hideSafety /\ instruction.safety

Source == ListSet(guide.instructions)

\* The last cell of a row is its action cell, the one before it its area.
ActionOf(row) == row[Len(row)]

AreaOf(row) == row[Len(row) - 1]

\* The positions of `visible` that start a maximal run of one area.
StartSet == {k \in 1..Len(visible) : k = 1 \/ visible[k].area # visible[k - 1].area}

NthStart(r) == CHOOSE k \in StartSet : Cardinality({j \in StartSet : j <= k}) = r

RunEnd(r) == IF r = Cardinality(StartSet) THEN Len(visible) ELSE NthStart(r + 1) - 1

(***************************************************************************)
(* C1 as stated: an instruction with a non-empty showOnIgnoredRules that   *)
(* the flags do not exclude is visible exactly when every listed id is     *)
(* ignored, hideOnIgnoredRules being read only when showOnIgnoredRules is  *)
(* empty.                                                                  *)
(***************************************************************************)
C1_ShowDecidesAlone ==
    InstrCall =>
        \A i \in Source :
            (Len(i.showOnIgnoredRules) > 0 /\ ~FlagExcluded(i))
                => (Shown(i) <=> AllIgnored(i.showOnIgnoredRules))

(***************************************************************************)
(* C1 amended: an instruction with a non-empty showOnIgnoredRules that the *)
(* flags do not exclude is visible exactly when every id of                *)
(* showOnIgnoredRules is ignored and no id of hideOnIgnoredRules is        *)
(* ignored: hideOnIgnoredRules is read whether or not showOnIgnoredRules   *)
(* is empty.                                                               *)
(***************************************************************************)
C1_ShowAndHide ==
    InstrCall =>
        \A i \in Source :
            (Len(i.showOnIgnoredRules) > 0 /\ ~FlagExcluded(i))
                => (Shown(i) <=> (/\ AllIgnored(i.showOnIgnoredRules)
                                  /\ ~SomeIgnored(i.hideOnIgnoredRules)))

\* An instruction whose showOnIgnoredRules ids are all ignored is hidden by
\* its hideOnIgnoredRules.
C1_Witness ==
    /\ InstrCall
    /\ \E i \in Source :
          /\ Len(i.showOnIgnoredRules) > 0
          /\ ~FlagExcluded(i)
          /\ AllIgnored(i.showOnIgnoredRules)
          /\ SomeIgnored(i.hideOnIgnoredRules)
          /\ ~Shown(i)

(***************************************************************************)
(* C2: an instruction with a non-empty hideOnIgnoredRules is hidden        *)
(* whenever at least one of its listed ids is ignored (so adding another   *)
(* listed id to ignoredRules keeps it hidden), and is visible when none of *)
(* its listed ids is ignored and neither the flags nor showOnIgnoredRules  *)
(* exclude it.                                                             *)
(***************************************************************************)
C2_HideMonotone ==
    InstrCall =>
        \A i \in Source :
            Len(i.hideOnIgnoredRules) > 0 =>
                /\ SomeIgnored(i.hideOnIgnoredRules) => ~Shown(i)
                /\ (/\ ~SomeIgnored(i.hideOnIgnoredRules)
                    /\ ~FlagExcluded(i)
                    /\ AllIgnored(i.showOnIgnoredRules)) => Shown(i)

\* Hidden with one listed id ignored and the other not.
C2_Witness ==
    /\ InstrCall
    /\ \E i \in Source :
          /\ i.hideOnIgnoredRules = <<1, 2>>
          /\ Opts.ignoredRules = <<1>>
          /\ ~FlagExcluded(i)
          /\ i.showOnIgnoredRules = <<>>
          /\ ~Shown(i)

(***************************************************************************)
(* C3: an optional instruction is excluded whenever hideOptional is set    *)
(* and a safety instruction whenever hideSafety is set, whatever its rule  *)
(* lists and ignoredRules; with both options unset the flags do not bear   *)
(* on visibility, which the rule lists alone decide.                       *)
(***************************************************************************)
C3_FlagsExclude ==
    InstrCall =>
        \A i \in Source :
            /\ (Opts.hideOptional /\ i.optional) => ~Shown(i)
            /\ (Opts.hideSafety /\ i.safety) => ~Shown(i)
            /\ (~Opts.hideOptional /\ ~Opts.hideSafety) =>
                  (Shown(i) <=> (/\ AllIgnored(i.showOnIgnoredRules)
                                 /\ ~SomeIgnored(i.hideOnIgnoredRules)))

\* A safety instruction the rule lists would show is excluded by hideSafety.
C3_Witness ==
    /\ InstrCall
    /\ Opts.hideSafety /\ ~Opts.hideOptional
    /\ \E i \in Source :
          /\ i.safety /\ ~i.optional
          /\ Len(i.showOnIgnoredRules) > 0
          /\ AllIgnored(i.showOnIgnoredRules)
          /\ ~SomeIgnored(i.hideOnIgnoredRules)
          /\ ~Shown(i)

(***************************************************************************)
(* C4 as stated: with hideInstructionId unset the ids shown in the table   *)
(* are contiguous, 0, 1, 2, ..., for every combination of options,         *)
(* collapseInstructionGroups included.                                     *)
(***************************************************************************)
C4_IdsContiguous ==
    (InstrCall /\ ~Opts.hideInstructionId) =>
        \A r \in 1..Len(rows) : rows[r][1] = ToString(r - 1)

(***************************************************************************)
(* C4 amended: with hideInstructionId unset, the visible instructions are  *)
(* the source list without the hidden ones, in order; without              *)
(* collapseInstructionGroups the k-th visible instruction has the k-th row *)
(* and the id k (from 0, contiguous), however many hidden instructions     *)
(* precede it; with collapseInstructionGroups each row shows the           *)
(* pre-collapse id of the first member of its run, so the ids start at 0   *)
(* and increase, with a gap after every merged run.                        *)
(***************************************************************************)
C4_IdsOfVisibleOrder ==
    (InstrCall /\ ~Opts.hideInstructionId) =>
        /\ visible = SelectSeq(guide.instructions, Shown)
        /\ ~Opts.collapseInstructionGroups =>
              /\ Len(rows) = Len(visible)
              /\ \A k \in 1..Len(visible) :
                    /\ rows[k][1] = ToString(k - 1)
                    /\ rows[k][2] = visible[k].area
                    /\ rows[k][3] = ActionCell(module, visible[k], Opts)
        /\ Opts.collapseInstructionGroups =>
              /\ Len(rows) = Cardinality(StartSet)
              /\ \A r \in 1..Len(rows) : rows[r][1] = ToString(NthStart(r) - 1)

\* A collapsed table whose second row has the id 2, and an uncollapsed one
\* whose first row follows a hidden instruction.
C4_Witness ==
    /\ InstrCall /\ ~Opts.hideInstructionId
    /\ \/ /\ Opts.collapseInstructionGroups
          /\ Len(rows) = 2 /\ rows[2][1] = "2"
       \/ /\ ~Opts.collapseInstructionGroups
          /\ Len(guide.instructions) = 3 /\ Len(rows) = 2
          /\ ~Shown(guide.instructions[1])

(***************************************************************************)
(* C5: with collapseInstructionGroups set, every maximal run of            *)
(* consecutive visible instructions of one area, of any length, is exactly *)
(* one row: its area and id are those of the run's first member and its    *)
(* action cell is the members' formatted lines, in order, joined by        *)
(* "<br><br>".                                                             *)
(***************************************************************************)
C5_RunsBecomeRows ==
    (InstrCall /\ Opts.collapseInstructionGroups) =>
        /\ Len(rows) = Cardinality(StartSet)
        /\ \A r \in 1..Len(rows) :
              LET first == NthStart(r)
                  size == RunEnd(r) - first + 1
              IN  /\ AreaOf(rows[r]) = visible[first].area
                  /\ ~Opts.hideInstructionId => rows[r][1] = ToString(first - 1)
                  /\ Len(rows[r]) = IF Opts.hideInstructionId THEN 2 ELSE 3
                  /\ ActionOf(rows[r]) =
                        Join([m \in 1..size |->
                                 ActionCell(module, visible[first + m - 1], Opts)],
                             "<br><br>")

\* A run of three or more instructions became one row.
C5_Witness ==
    /\ InstrCall /\ Opts.collapseInstructionGroups
    /\ Len(visible) >= 3
    /\ Len(rows) = 1
    /\ visible[1] # visible[2]

(***************************************************************************)
(* C6: collapsing neither reorders nor drops content (the action cells of  *)
(* the collapsed rows, read in row order, are the pre-collapse lines in    *)
(* the same order), never merges two rows of one area that a row of        *)
(* another area separates, and leaves no two adjacent rows with the same   *)
(* area.                                                                   *)
(***************************************************************************)
C6_CollapseKeepsContent ==
    (InstrCall /\ Opts.collapseInstructionGroups) =>
        /\ Join([r \in 1..Len(rows) |-> ActionOf(rows[r])], "<br><br>")
              = Join([k \in 1..Len(visible) |-> ActionCell(module, visible[k], Opts)],
                     "<br><br>")
        /\ \A r \in 1..(Len(rows) - 1) : AreaOf(rows[r]) # AreaOf(rows[r + 1])
        /\ \A k \in 2..Len(visible) :
              visible[k].area # visible[k - 1].area =>
                  \E r \in 2..Len(rows) :
                      /\ AreaOf(rows[r]) = visible[k].area
                      /\ AreaOf(rows[r - 1]) = visible[k - 1].area
        /\ Len(rows) = Cardinality(StartSet)

\* Two rows of one area separated by a row of another area stay apart.
C6_Witness ==
    /\ InstrCall /\ Opts.collapseInstructionGroups
    /\ Len(visible) = 3
    /\ Len(rows) = 3
    /\ AreaOf(rows[1]) = AreaOf(rows[3])

(***************************************************************************)
(* C7: format is deterministic across repeated calls: a format call that   *)
(* follows a format call with the same options on the same Guide object    *)
(* returns the same string, fight-boss instructions with attached items or *)
(* spells included.                                                        *)
(***************************************************************************)
C7_RepeatedFormatSame ==
    [][(op = "format" /\ op' = "format" /\ options' = options) => result' = result]_vars

(***************************************************************************)
(* C8: formatting never mutates the Guide: a format, formatInstructions,   *)
(* formatRules, formatHeader or formatResources call with any options      *)
(* leaves the guide's instructions, rules, resources, description,         *)
(* categories and gameTitle as they were.                                  *)
(***************************************************************************)
C8_FormatLeavesGuide ==
    [][op' \in FormatOps => guide' = guide]_vars

\* The options of the last call with every field the caller left out set to
\* its documented default: false, and an empty ignoredRules.
C9_Effective ==
    [collapseInstructionGroups |->
        IF options.collapseInstructionGroups = <<>> THEN FALSE
        ELSE options.collapseInstructionGroups[1],
     hideComments |->
        IF options.hideComments = <<>> THEN FALSE ELSE options.hideComments[1],
     hideInstructionId |->
        IF options.hideInstructionId = <<>> THEN FALSE ELSE options.hideInstructionId[1],
     hideOptional |->
        IF options.hideOptional = <<>> THEN FALSE ELSE options.hideOptional[1],
     hideSafety |->
        IF options.hideSafety = <<>> THEN FALSE ELSE options.hideSafety[1],
     ignoredRules |->
        IF options.ignoredRules = <<>> THEN <<>> ELSE options.ignoredRules[1]]

(***************************************************************************)
(* C9: a call without options returns what the call with every             *)
(* FormatOptions field set to its documented default (the five booleans    *)
(* false, ignoredRules empty) returns, and a partial options object acts   *)
(* as those defaults with the supplied fields overridden, in format,       *)
(* formatRules and formatInstructions (with its filterInstructions and     *)
(* formatComments).                                                        *)
(***************************************************************************)
C9_DefaultsIdempotent ==
    LET explicit == Supplied(C9_Effective)
    IN  /\ op = "format" => result = format(module, guide, explicit)
        /\ op = "formatRules" => result = formatRules(guide, explicit)
        /\ op = "formatInstructions" =>
              result = formatInstructions(module, guide.instructions, explicit)
        /\ InstrCall =>
              /\ visible = filterInstructions(guide.instructions, explicit)
              /\ rows = InstructionRows(module, guide.instructions, explicit)

\* format() without options on a guide whose instructions carry comments, an
\* optional flag and a rule list.
C9_Witness ==
    /\ op = "format"
    /\ options = NoOptions
    /\ Len(visible) = 3
    /\ \E k \in 1..3 : Len(visible[k].comments) > 0
    /\ \E k \in 1..3 : visible[k].optional

(***************************************************************************)
(* The rendering of an item list the claim C10 describes: each item its    *)
(* emphasized name, followed by " (quantity)" only when withOne or the     *)
(* quantity is greater than 1, the items joined by ", ".                   *)
(***************************************************************************)
C10_Items(items, marker, withOne) ==
    Join([k \in 1..Len(items) |->
             marker \o items[k].name \o marker
             \o (IF withOne \/ items[k].quantity > 1
                 THEN " (" \o ToString(items[k].quantity) \o ")" ELSE "")],
         ", ")

\* The line of an instruction of an item-list kind; withOne tells whether
\* use-items and fight-boss show a quantity of 1.
C10_Line(i, withOne) ==
    CASE i.type = "buy-items" -> "Buy " \o C10_Items(i.items, "***", FALSE) \o " from " \o i.vendor
      [] i.type = "grab-items" -> "Grab " \o C10_Items(i.items, "***", FALSE) \o " " \o i.where
      [] i.type = "kill-lizards" ->
            "Kill lizard " \o i.where \o " for " \o C10_Items(i.rewards, "***", FALSE)
      [] i.type = "use-items" -> "Use " \o C10_Items(i.items, "***", withOne)
      [] i.type = "fight-boss" ->
            "Fight ***" \o i.boss \o "***<br>- Use " \o C10_Items(i.items, "_", withOne)

\* The last call rendered one instruction of an item-list kind, alone.
C10_ItemCall ==
    /\ InstrCall
    /\ Len(visible) = 1
    /\ visible[1] \in ItemKindPool
    /\ Len(rows) = 1

(***************************************************************************)
(* C10 as stated: in buy-items, grab-items, kill-lizards, use-items and    *)
(* fight-boss, each item is its emphasized name followed by " (quantity)"  *)
(* only when its quantity is greater than 1, the items joined by ", ".     *)
(***************************************************************************)
C10_QuantityOnlyAboveOne ==
    C10_ItemCall => ActionOf(rows[1]) = C10_Line(visible[1], FALSE)

(***************************************************************************)
(* C10 amended: in buy-items, grab-items and kill-lizards rewards each     *)
(* item is its emphasized name followed by " (quantity)" only when its     *)
(* quantity is greater than 1; in use-items and fight-boss items every     *)
(* item is followed by " (quantity)", a quantity of 1 included; the items  *)
(* are joined by ", ".                                                     *)
(***************************************************************************)
C10_QuantityPerKind ==
    C10_ItemCall => ActionOf(rows[1]) = C10_Line(visible[1], TRUE)

\* use-items renders a quantity of 1; buy-items does not.
C10_Witness ==
    /\ C10_ItemCall
    /\ \/ /\ visible[1].type = "use-items"
          /\ ActionOf(rows[1]) = "Use ***E*** (1), ***F*** (2)"
       \/ /\ visible[1].type = "buy-items"
          /\ ActionOf(rows[1]) = "Buy ***E***, ***F*** (2) from M"

(***************************************************************************)
(* C11 as stated: in the line rendered for a document's allot-estus,       *)
(* burn-undead-bone-shards, reinforce-estus or kill-lizards instruction, a *)
(* quantity/amount of exactly 1 gives the singular noun, any other number  *)
(* the plural noun, and a missing one the word "all" with the plural noun. *)
(***************************************************************************)
C11_Kinds == {"allot-estus", "burn-undead-bone-shards", "reinforce-estus", "kill-lizards"}

\* The amount field of an instruction of one of the four kinds.
C11_Amount(i) == IF i.type = "allot-estus" THEN i.quantity ELSE i.amount

\* The line of instruction i for the count word n with the singular or the
\* plural noun.
C11_Line(i, n, singular) ==
    CASE i.type = "allot-estus" ->
            IF singular
            THEN "Allot " \o n \o " ***Ashen Estus Flask*** to ***Normal Estus Flask***"
            ELSE "Allot " \o n \o " ***Ashen Estus Flasks*** to ***Normal Estus Flasks***"
      [] i.type = "burn-undead-bone-shards" ->
            IF singular THEN "Burn " \o n \o " ***Undead Bone Shard*** at the bonfire"
            ELSE "Burn " \o n \o " ***Undead Bone Shards*** at the bonfire"
      [] i.type = "reinforce-estus" ->
            IF singular THEN "Reinforce " \o n \o " ***Estus Flask*** by _Andre_"
            ELSE "Reinforce " \o n \o " ***Estus Flasks*** by _Andre_"
      [] i.type = "kill-lizards" ->
            IF singular THEN "Kill lizard " \o i.where \o " for " \o mapItems(i.rewards)
            ELSE "Kill " \o n \o " lizards " \o i.where \o " for " \o mapItems(i.rewards)

\* A step from the parse of a one-instruction document of the four kinds to a
\* call that renders its instruction.
C11_ParseThenRender ==
    /\ op = "parse" /\ ~thrown
    /\ Len(maybeGuide[1].instructions) = 1
    /\ maybeGuide[1].instructions[1].type \in C11_Kinds
    /\ op' \in {"format", "formatInstructions"}
    /\ Len(rows') = 1

C11_MissingIsAll ==
    [][C11_ParseThenRender =>
          LET i == maybeGuide[1].instructions[1]
              n == C11_Amount(i)
          IN  ActionOf(rows'[1]) =
                  C11_Line(i, IF n = <<>> THEN "all" ELSE ToString(n[1]), n = <<1>>)]_vars

(***************************************************************************)
(* C11 amended: a quantity/amount of exactly 1 gives the singular noun and *)
(* any other number the schema accepts the plural noun; a missing          *)
(* allot-estus quantity, burn-undead-bone-shards amount or reinforce-estus *)
(* amount gives the word "all" with the plural noun; a missing             *)
(* kill-lizards amount is the schema's default 1 and gives the singular    *)
(* "lizard".                                                               *)
(***************************************************************************)
C11_PluralBoundary ==
    [][C11_ParseThenRender =>
          LET i == maybeGuide[1].instructions[1]
              n == IF i.type = "kill-lizards" /\ i.amount = <<>> THEN <<1>>
                   ELSE C11_Amount(i)
          IN  ActionOf(rows'[1]) =
                  C11_Line(i, IF n = <<>> THEN "all" ELSE ToString(n[1]), n = <<1>>)]_vars

\* A burn-undead-bone-shards without amount rendered with "all" and the plural,
\* in a guide parsed from a document.
C11_Witness ==
    /\ InstrCall
    /\ Len(guide.instructions) = 1
    /\ guide.instructions[1].type = "burn-undead-bone-shards"
    /\ guide.instructions[1].amount = <<>>
    /\ Len(rows) = 1
    /\ ActionOf(rows[1]) = "Burn all ***Undead Bone Shards*** at the bonfire"

(***************************************************************************)
(* C12: the line rendered for an instruction carries at most one flag      *)
(* marker in front of its text: "[peachy]" when safety is set (also when   *)
(* optional is set too), "[optional]" when only optional is set, no marker *)
(* when neither is set.  Stated on the comment instructions without        *)
(* comments of a table that was not collapsed; the text is bold in         *)
(* part_000, and the space after the marker may stand inside or after the  *)
(* emphasis.                                                               *)
(***************************************************************************)
C12_Text(i) == IF module = Part000 THEN MD_b(i.text) ELSE i.text

C12_Marked(marker, text) == {MD_i(marker) \o " " \o text, MD_i(marker \o " ") \o text}

C12_OneMarker ==
    (InstrCall /\ Len(rows) = Len(visible)) =>
        \A k \in 1..Len(visible) :
            LET i == visible[k]
                line == ActionOf(rows[k])
            IN  (i.type = "comment" /\ i.comments = <<>>) =>
                    /\ i.safety => line \in C12_Marked("[peachy]", C12_Text(i))
                    /\ (i.optional /\ ~i.safety) => line \in C12_Marked("[optional]", C12_Text(i))
                    /\ (~i.optional /\ ~i.safety) => line = C12_Text(i)

(***************************************************************************)
(* C13 as stated: formatRules returns nothing for an empty rule table and  *)
(* otherwise the list with one entry per declared rule in ascending id     *)
(* order, the text of an ignored rule between strikethrough markers, the   *)
(* text of any other rule unchanged, whatever ignoredRules holds.          *)
(***************************************************************************)
\* The id of the rule at position p of the ascending order.
C13_IdAt(p) ==
    CHOOSE id \in DOMAIN guide.rules :
        Cardinality({j \in DOMAIN guide.rules : j <= id}) = p

\* The rules section whose entry for id is Entry[id].
C13_Section(Entry) ==
    IF DOMAIN guide.rules = {} THEN ""
    ELSE "## Rules\n\nThe run includes the following restrictions:\n\n"
         \o Join([p \in 1..Cardinality(DOMAIN guide.rules) |->
                     ToString(p) \o ". " \o Entry[C13_IdAt(p)]], "\n")

C13_StruckNotRemoved ==
    op = "formatRules" =>
        result = C13_Section([id \in DOMAIN guide.rules |->
                                 IF id \in ListSet(Opts.ignoredRules)
                                 THEN "~~" \o guide.rules[id] \o "~~"
                                 ELSE guide.rules[id]])

(***************************************************************************)
(* C13 amended: as stated, except that the strikethrough markers are put   *)
(* around the text of an ignored rule only when the text is not empty; an  *)
(* ignored rule with an empty text keeps its entry, which is empty as it   *)
(* is when the rule is not ignored.                                        *)
(***************************************************************************)
C13_StruckWhenNotEmpty ==
    op = "formatRules" =>
        result = C13_Section([id \in DOMAIN guide.rules |->
                                 IF id \in ListSet(Opts.ignoredRules) /\ guide.rules[id] # ""
                                 THEN "~~" \o guide.rules[id] \o "~~"
                                 ELSE guide.rules[id]])

\* Two declared rules, the first ignored and struck, the second not.
C13_Witness ==
    /\ op = "formatRules"
    /\ Opts.ignoredRules = <<1>>
    /\ result = "## Rules\n\nThe run includes the following restrictions:\n\n"
                \o "1. ~~No upgrades~~\n2. No estus"

(***************************************************************************)
(* C14: formatInstructions renders the italic placeholder line "There are  *)
(* no instructions" in place of a table exactly when the visible list is   *)
(* empty (an empty source list, or every instruction filtered out), and a  *)
(* table, never the placeholder, when an instruction is visible.           *)
(***************************************************************************)
C14_Placeholder == "_There are no instructions_"

C14_PlaceholderIffNoneVisible ==
    InstrCall =>
        /\ Len(visible) = 0 =>
              /\ tableCells = <<>>
              /\ op = "formatInstructions" => result = C14_Placeholder
              /\ op = "format" =>
                    result = formatHeader(guide) \o "\n\n" \o formatResources(guide) \o "\n\n"
                             \o formatRules(guide, options) \o "\n\n" \o C14_Placeholder
        /\ Len(visible) > 0 =>
              /\ Len(tableCells) = Len(rows) + 2
              /\ op = "formatInstructions" => result # C14_Placeholder

(***************************************************************************)
(* C15: the document returned by format is its emitted sections (header,   *)
(* resources, rules, instructions) in that order with exactly one blank    *)
(* line between consecutive emitted sections; a section that is not        *)
(* emitted (empty resources, empty rules) adds no text and no separator.   *)
(***************************************************************************)
C15_Emitted(section) == section # ""

C15_SectionsOneBlankLine ==
    op = "format" =>
        result = Join(SelectSeq(<<formatHeader(guide),
                                  formatResources(guide),
                                  formatRules(guide, options),
                                  formatInstructions(module, guide.instructions, options)>>,
                                C15_Emitted),
                      "\n\n")

(***************************************************************************)
(* Vocabulary of the table properties: the arguments of the call are       *)
(* tableColumns and rows, the cells it built tableCells (header cells,     *)
(* marker cells, then the cells of each row).                              *)
(***************************************************************************)
\* max(number of declared columns, length of the longest row)
TableWidth ==
    LET lens == {Len(tableColumns)} \cup {Len(rows[r]) : r \in 1..Len(rows)}
    IN  CHOOSE n \in lens : \A m \in lens : m <= n

TitleOf(c) == IF c <= Len(tableColumns) THEN tableColumns[c].title ELSE ""

AlignmentOf(c) == IF c <= Len(tableColumns) THEN tableColumns[c].alignment ELSE "left"

CellOf(r, c) == IF c <= Len(rows[r]) THEN rows[r][c] ELSE ""

\* max(3, title length, longest cell length in column c)
WidthOf(c) ==
    LET lens == {3, Len(TitleOf(c))} \cup {Len(CellOf(r, c)) : r \in 1..Len(rows)}
    IN  CHOOSE n \in lens : \A m \in lens : m <= n

Spaces(n) == Repeat(" ", n)

\* Every line has TableWidth cells, the columns beyond the declared ones an
\* empty title and left alignment, the cells missing from a row empty.
TableReconciled ==
    /\ Len(tableCells) = Len(rows) + 2
    /\ \A l \in 1..Len(tableCells) : Len(tableCells[l]) = TableWidth
    /\ \A c \in (Len(tableColumns) + 1)..TableWidth :
          /\ tableCells[1][c] = Spaces(WidthOf(c))
          /\ tableCells[2][c] = Repeat("-", WidthOf(c))
    /\ \A r \in 1..Len(rows) : \A c \in (Len(rows[r]) + 1)..TableWidth :
          tableCells[r + 2][c] = Spaces(WidthOf(c))

(***************************************************************************)
(* C16 as stated: MD.table reconciles the column count to max(number of    *)
(* declared columns, length of the longest row) for every columns list and *)
(* every rows list, an empty columns list with non-empty rows included.    *)
(***************************************************************************)
C16_ReconciledAlways ==
    (op = "table" /\ TableWidth > 0) => TableReconciled

(***************************************************************************)
(* C16 amended: MD.table reconciles the column count as stated for every   *)
(* non-empty columns list and every rows list; for an empty columns list   *)
(* it emits nothing, whatever the rows.                                    *)
(***************************************************************************)
C16_ReconciledWithColumns ==
    op = "table" =>
        /\ Len(tableColumns) > 0 => TableReconciled
        /\ Len(tableColumns) = 0 => (tableCells = <<>> /\ result = "")

\* One declared column, a row of three cells and a row of one cell: every
\* line of the table has three cells.
C16_Witness ==
    /\ op = "table"
    /\ Len(tableColumns) = 1
    /\ Len(rows) = 2 /\ Len(rows[1]) = 3 /\ Len(rows[2]) = 1
    /\ \A l \in 1..4 : Len(tableCells[l]) = 3

(***************************************************************************)
(* C17: in a table rendered by MD.table every column c has the width       *)
(* W = max(3, title length, longest cell length in the column); its header *)
(* cell, marker cell and data cells are W characters long each; the marker *)
(* cell is dashes ending in ':' for right alignment, dashes alone for left *)
(* alignment, dashes between two ':' for center alignment.                 *)
(***************************************************************************)
C17_Marker(c) ==
    CASE AlignmentOf(c) = "right" -> Repeat("-", WidthOf(c) - 1) \o ":"
      [] AlignmentOf(c) = "left" -> Repeat("-", WidthOf(c))
      [] AlignmentOf(c) = "center" -> ":" \o Repeat("-", WidthOf(c) - 2) \o ":"

C17_ColumnWidths ==
    (op = "table" /\ tableCells # <<>>) =>
        \A l \in 1..Len(tableCells) : \A c \in 1..Len(tableCells[l]) :
            /\ Len(tableCells[l][c]) = WidthOf(c)
            /\ l = 2 => tableCells[l][c] = C17_Marker(c)

\* A centered column as wide as its longest cell, a left column at the
\* minimum width of 3 and a right column as wide as its title.
C17_Witness ==
    /\ op = "table"
    /\ tableColumns = <<[title |-> "Id", alignment |-> "center"],
                        [title |-> "", alignment |-> "left"]>>
    /\ rows = <<<<"wide5", "ab">>, <<"ab">>>>
    /\ tableCells = <<<<"Id   ", "   ">>, <<":---:", "---">>,
                      <<"wide5", "ab ">>, <<"  ab ", "   ">>>>

(***************************************************************************)
(* C18: a parse that raises a validation error changes none of the guide's *)
(* fields (categories, description, resources, gameTitle, instructions,    *)
(* rules), so the guide stays as it was before the call, empty if it was   *)
(* never filled; a parse that returns has assigned every field from the    *)
(* document, so the guide never holds a mixture of old and new data.       *)
(***************************************************************************)
C18_NoPartialResult ==
    [][op' = "parse" =>
          IF thrown' THEN guide' = guide
          ELSE /\ guide'.categories = maybeGuide'[1].categories
               /\ guide'.description = maybeGuide'[1].description
               /\ guide'.resources = maybeGuide'[1].resources
               /\ guide'.gameTitle = maybeGuide'[1].gameTitle
               /\ guide'.rules = maybeGuide'[1].rules
               /\ Len(guide'.instructions) = Len(maybeGuide'[1].instructions)
               /\ \A k \in 1..Len(guide'.instructions) :
                     /\ guide'.instructions[k].type = maybeGuide'[1].instructions[k].type
                     /\ guide'.instructions[k].area = maybeGuide'[1].instructions[k].area]_vars

\* A parse that threw on a filled guide: the guide still holds the fields of
\* the earlier document, none of the rejected one.
C18_Witness ==
    /\ op = "parse" /\ thrown
    /\ maybeGuide = <<BadInstructionDoc>>
    /\ guide = Doc(<<PlainA, HideableB>>)

(***************************************************************************)
(* C19: the line of an upgrade-weapon instruction has one of four shapes,  *)
(* decided by which of infusion and level are present alone: "Infuse W     *)
(* with I and upgrade to +L" (both), "Infuse W with I" (infusion only),    *)
(* "Upgrade W to +L" (level only), "Upgrade W" (neither), W in bold        *)
(* italics and I in italics.                                               *)
(***************************************************************************)
C19_Shape(i) ==
    LET W == "***" \o i.weapon \o "***"
    IN  CASE i.infusion # <<>> /\ i.level # <<>> ->
                "Infuse " \o W \o " with _" \o i.infusion[1] \o "_ and upgrade to +"
                \o ToString(i.level[1])
          [] i.infusion # <<>> /\ i.level = <<>> ->
                "Infuse " \o W \o " with _" \o i.infusion[1] \o "_"
          [] i.infusion = <<>> /\ i.level # <<>> ->
                "Upgrade " \o W \o " to +" \o ToString(i.level[1])
          [] i.infusion = <<>> /\ i.level = <<>> -> "Upgrade " \o W

C19_FourShapes ==
    (InstrCall /\ Len(rows) = Len(visible)) =>
        \A k \in 1..Len(visible) :
            (visible[k].type = "upgrade-weapon" /\ visible[k].comments = <<>>) =>
                ActionOf(rows[k]) = C19_Shape(visible[k])

\* An upgrade-weapon with both facets, rendered.
C19_Witness ==
    /\ InstrCall
    /\ Len(visible) = 1
    /\ visible[1].type = "upgrade-weapon"
    /\ visible[1].infusion = <<"Fire">> /\ visible[1].level = <<2>>
    /\ ActionOf(rows[1]) = "Infuse ***W*** with _Fire_ and upgrade to +2"

(***************************************************************************)
(* C20: the in-place collapse loop of formatInstructions ends after a      *)
(* finite number of iterations (one per row after the first) and leaves    *)
(* the rows that a single forward pass builds, which fuses each row into   *)
(* the last row of its output when their areas are equal and appends it    *)
(* otherwise.                                                              *)
(***************************************************************************)
\* Fuse row into the last row of out, or append it.
C20_Fuse(out, row) ==
    IF out # <<>> /\ out[Len(out)][2] = row[2]
    THEN [out EXCEPT ![Len(out)][3] = out[Len(out)][3] \o "<br><br>" \o row[3]]
    ELSE Append(out, row)

RECURSIVE C20_ForwardPass(_, _)
C20_ForwardPass(rws, out) ==
    IF rws = <<>> THEN out ELSE C20_ForwardPass(Tail(rws), C20_Fuse(out, Head(rws)))

\* The rows before the collapse: one [id, area, action] row per visible
\* instruction.
C20_RowsBefore == BuildRows(module, visible, Opts)

C20_LoopIsForwardPass ==
    (InstrCall /\ Opts.collapseInstructionGroups) =>
        /\ rows = HideIds(C20_ForwardPass(C20_RowsBefore, <<>>), Opts)
        /\ CollapseIterations(C20_RowsBefore, 2) = Max(0, Len(C20_RowsBefore) - 1)

\* Three visible rows, the first two of one area: the loop merged them and
\* kept the third.
C20_Witness ==
    /\ InstrCall /\ Opts.collapseInstructionGroups /\ ~Opts.hideInstructionId
    /\ Len(visible) = 3
    /\ visible[1].area = visible[2].area /\ visible[2].area # visible[3].area
    /\ Len(rows) = 2
    /\ rows[1][1] = "0" /\ rows[2][1] = "2"

(***************************************************************************)
(* C21: hideInstructionId only drops the Id column and its values.  Of two *)
(* consecutive renderings of one guide whose options differ in             *)
(* hideInstructionId alone, the rows of the one with it set are, in the    *)
(* same number and order, the rows of the other minus their first cell;    *)
(* the declared columns are [Area, Action] against [Id, Area, Action]; and *)
(* in both every row has as many cells as there are declared columns.      *)
(***************************************************************************)
C21_Titles(columns) == [c \in 1..Len(columns) |-> columns[c].title]

\* rowsWith/columnsWith from the rendering with the ids, rowsWithout and
\* columnsWithout from the one with hideInstructionId set.
C21_IdColumnDropped(rowsWith, columnsWith, rowsWithout, columnsWithout) ==
    /\ Len(rowsWithout) = Len(rowsWith)
    /\ \A k \in 1..Len(rowsWith) :
          /\ rowsWithout[k] = Tail(rowsWith[k])
          /\ Len(rowsWith[k]) = Len(columnsWith)
          /\ Len(rowsWithout[k]) = Len(columnsWithout)
    /\ Len(rowsWith) > 0 =>
          /\ C21_Titles(columnsWith) = <<"Id", "Area", "Action">>
          /\ C21_Titles(columnsWithout) = <<"Area", "Action">>

C21_OnlyIdColumnDropped ==
    [][(/\ op \in {"format", "formatInstructions"}
        /\ op' \in {"format", "formatInstructions"}
        /\ guide' = guide
        /\ MergeOptions(options') =
              [MergeOptions(options) EXCEPT
                  !.hideInstructionId = ~MergeOptions(options).hideInstructionId])
       => IF MergeOptions(options').hideInstructionId
          THEN C21_IdColumnDropped(rows, tableColumns, rows', tableColumns')
          ELSE C21_IdColumnDropped(rows', tableColumns', rows, tableColumns)]_vars

\* Two merged rows rendered without their ids under a two-column header.
C21_Witness ==
    /\ InstrCall
    /\ Opts.hideInstructionId /\ Opts.collapseInstructionGroups
    /\ Len(visible) = 3 /\ Len(rows) = 2
    /\ \A k \in 1..2 : Len(rows[k]) = 2
    /\ C21_Titles(tableColumns) = <<"Area", "Action">>

====
